---- MODULE Spec2Model ----
(***************************************************************************)
(* Parent/Children hierarchy maintenance of bevy_hierarchy's               *)
(* child_builder.rs: the link primitives, the batch helpers, the immediate *)
(* builder (impl BuildChildren for EntityWorldMut) and the deferred        *)
(* builder (impl BuildChildren for EntityCommands).                        *)
(*                                                                         *)
(* A world is a record                                                     *)
(*   spawned   how many entity handles the store has handed out           *)
(*   alive     the entities that exist in the store                        *)
(*   parent    Entity -> Option<Entity>        (the Parent component)      *)
(*   children  Entity -> Option<Seq(Entity)>   (the Children component)    *)
(*   events    the contents of Events<HierarchyEvent>                      *)
(*   sink      whether the Events<HierarchyEvent> resource is registered   *)
(*   panicked  whether a panic!/assert! has unwound the running call       *)
(* `twin` is a second store of the same shape, without the                 *)
(* Events<HierarchyEvent> resource, for the runs that make every call on   *)
(* both stores.                                                            *)
(* An Option is a sequence of length at most one: None is << >> and        *)
(* Some(x) is <<x>>.                                                       *)
(***************************************************************************)
EXTENDS Integers, Sequences, FiniteSets, TLC

VARIABLES spawned, alive, parent, children, events, has_events, panicked,
          queue, call, pre, chain, twin

vars == <<spawned, alive, parent, children, events, has_events, panicked,
          queue, call, pre, chain, twin>>

\* Number of entity handles the store hands out in one run of Spec.
NumEntities == 3
\* Number of entity handles the store hands out in one run of SpecWide.
WideEntities == 4
\* Longest slice passed as the `children` argument of a batch operation.
MaxLen == 2
\* Longest run of identical chained calls (`.op(x).op(x)`) after the first.
MaxChain == 1
\* Most commands recorded in the CommandQueue before it is applied.
MaxQueue == 1
\* Largest `index` argument passed to insert_children.
MaxIndex == 2
\* Most calls recorded in a row before the queue is applied in SpecQueue.
MaxPending == 2

\* Every handle the store can hand out in this run.
Entity == DOMAIN parent

None == << >>
Some(x) == <<x>>
IsSome(o) == o /= << >>
Unwrap(o) == o[1]

Contains(s, x) == \E i \in 1..Len(s) : s[i] = x
Retain(s, Keep(_)) == SelectSeq(s, Keep)
Count(s, x) == Cardinality({i \in 1..Len(s) : s[i] = x})

ChildAdded(c, p) == [kind |-> "ChildAdded", child |-> c, parent |-> p]
ChildRemoved(c, p) == [kind |-> "ChildRemoved", child |-> c, parent |-> p]
ChildMoved(c, a, b) ==
    [kind |-> "ChildMoved", child |-> c, previous_parent |-> a, new_parent |-> b]

\* The state of the store as one value.
World ==
    [spawned |-> spawned, alive |-> alive, parent |-> parent, children |-> children,
     events |-> events, sink |-> has_events, panicked |-> panicked]

\* panic!(..), and every call that panics inside the store: unwinding keeps
\* whatever was written before it.
Panic(w) == [w EXCEPT !.panicked = TRUE]

\* push_events through world.resource_mut, which panics when the resource is
\* not in the world.
push_events_required(w, evs) ==
    IF w.sink THEN [w EXCEPT !.events = @ \o evs] ELSE Panic(w)

\* fn push_events: extend the resource if it is there, drop the events if not.
push_events(w, evs) ==
    IF w.sink THEN [w EXCEPT !.events = @ \o evs] ELSE w

\* fn add_child_unchecked: world.entity_mut(parent) panics on a missing entity.
add_child_unchecked(w, p, child) ==
    IF p \notin w.alive THEN Panic(w)
    ELSE IF IsSome(w.children[p])
         THEN [w EXCEPT !.children[p] = Some(Append(Unwrap(@), child))]
         ELSE [w EXCEPT !.children[p] = Some(<<child>>)]

\* fn update_parent: the world after the write and the previous Parent, if any.
update_parent(w, child, new_parent) ==
    IF child \notin w.alive
    THEN [world |-> Panic(w), previous |-> None]
    ELSE [world |-> [w EXCEPT !.parent[child] = Some(new_parent)],
          previous |-> w.parent[child]]

\* remove_from_children that looks the parent up with world.entity_mut, which
\* panics on a missing entity.
remove_from_children_unchecked(w, p, child) ==
    IF p \notin w.alive THEN Panic(w)
    ELSE IF ~IsSome(w.children[p]) THEN w
    ELSE LET kept == Retain(Unwrap(w.children[p]), LAMBDA x : x /= child)
         IN  IF kept = << >>
             THEN [w EXCEPT !.children[p] = None]
             ELSE [w EXCEPT !.children[p] = Some(kept)]

\* remove_from_children with SmallVec::swap_remove at the child's first index
\* in place of retain: the last child takes the removed child's place.
remove_from_children_swap(w, p, child) ==
    IF p \notin w.alive THEN w
    ELSE IF ~IsSome(w.children[p]) THEN w
    ELSE LET s == Unwrap(w.children[p])
             at == {i \in 1..Len(s) : s[i] = child}
             i == CHOOSE k \in at : \A m \in at : k <= m
             kept == IF at = {} THEN s
                     ELSE SubSeq([s EXCEPT ![i] = s[Len(s)]], 1, Len(s) - 1)
         IN  IF kept = << >>
             THEN [w EXCEPT !.children[p] = None]
             ELSE [w EXCEPT !.children[p] = Some(kept)]

\* remove_from_children without the `if children.is_empty()` removal of the
\* component.
remove_from_children_keep_empty(w, p, child) ==
    IF p \notin w.alive THEN w
    ELSE IF ~IsSome(w.children[p]) THEN w
    ELSE [w EXCEPT !.children[p] =
             Some(Retain(Unwrap(@), LAMBDA x : x /= child))]

\* fn remove_from_children
remove_from_children(w, p, child) ==
    IF p \notin w.alive THEN w
    ELSE IF ~IsSome(w.children[p]) THEN w
    ELSE LET kept == Retain(Unwrap(w.children[p]), LAMBDA x : x /= child)
         IN  IF kept = << >>
             THEN [w EXCEPT !.children[p] = None]
             ELSE [w EXCEPT !.children[p] = Some(kept)]

\* update_old_parent that leaves the child in its previous parent's Children.
update_old_parent_no_detach(w, child, p) ==
    LET r == update_parent(w, child, p)
    IN  IF r.world.panicked THEN r.world
        ELSE IF IsSome(r.previous)
        THEN IF Unwrap(r.previous) = p
             THEN r.world
             ELSE push_events(r.world, <<ChildMoved(child, Unwrap(r.previous), p)>>)
        ELSE push_events(r.world, <<ChildAdded(child, p)>>)

\* fn update_old_parent
update_old_parent(w, child, p) ==
    LET r == update_parent(w, child, p)
    IN  IF r.world.panicked THEN r.world
        ELSE IF IsSome(r.previous)
        THEN IF Unwrap(r.previous) = p
             THEN r.world
             ELSE push_events(
                      remove_from_children(r.world, Unwrap(r.previous), child),
                      <<ChildMoved(child, Unwrap(r.previous), p)>>)
        ELSE push_events(r.world, <<ChildAdded(child, p)>>)

\* The `for &child in children` loop of update_old_parents, from index i on,
\* with the events collected so far; a panic drops the collected events.
RECURSIVE update_old_parents_loop(_, _, _, _, _)
update_old_parents_loop(w, p, cs, i, evs) ==
    IF i > Len(cs) THEN push_events(w, evs)
    ELSE LET child == cs[i]
             r == update_parent(w, child, p)
         IN  IF r.world.panicked THEN r.world
             ELSE IF IsSome(r.previous)
             THEN IF p = Unwrap(r.previous)
                  THEN update_old_parents_loop(r.world, p, cs, i + 1, evs)
                  ELSE update_old_parents_loop(
                           remove_from_children(r.world, Unwrap(r.previous), child),
                           p, cs, i + 1,
                           Append(evs, ChildMoved(child, Unwrap(r.previous), p)))
             ELSE update_old_parents_loop(
                      r.world, p, cs, i + 1, Append(evs, ChildAdded(child, p)))

\* update_old_parents that walks the children from the last to the first.
update_old_parents_reversed(w, p, cs) ==
    update_old_parents_loop(w, p, [i \in 1..Len(cs) |-> cs[Len(cs) + 1 - i]], 1, << >>)

\* fn update_old_parents
update_old_parents(w, p, cs) == update_old_parents_loop(w, p, cs, 1, << >>)

\* The second loop of remove_children: remove Parent from the child of every
\* collected event; world.entity_mut(child) panics on a missing entity.
RECURSIVE remove_parents_loop(_, _, _)
remove_parents_loop(w, evs, i) ==
    IF i > Len(evs) THEN w
    ELSE IF evs[i].child \notin w.alive THEN Panic(w)
    ELSE remove_parents_loop([w EXCEPT !.parent[evs[i].child] = None], evs, i + 1)

\* remove_children without the `parent_children.contains(&child)` test: one
\* event, and one Parent removal, for every child of the input.
remove_children_fn_unfiltered(w, p, cs) ==
    IF p \notin w.alive \/ ~IsSome(w.children[p]) THEN w
    ELSE LET parent_children == Unwrap(w.children[p])
             evs == [i \in 1..Len(cs) |-> ChildRemoved(cs[i], p)]
             w1 == remove_parents_loop(w, evs, 1)
         IN  IF w1.panicked THEN w1
             ELSE LET w2 == push_events(w1, evs)
                      kept == Retain(parent_children, LAMBDA x : ~Contains(cs, x))
                  IN  IF kept = << >>
                      THEN [w2 EXCEPT !.children[p] = None]
                      ELSE [w2 EXCEPT !.children[p] = Some(kept)]

\* fn remove_children(parent, children, world)
remove_children_fn(w, p, cs) ==
    IF p \notin w.alive \/ ~IsSome(w.children[p]) THEN w
    ELSE LET parent_children == Unwrap(w.children[p])
             present == SelectSeq(cs, LAMBDA c : Contains(parent_children, c))
             evs == [i \in 1..Len(present) |-> ChildRemoved(present[i], p)]
             w1 == remove_parents_loop(w, evs, 1)
         IN  IF w1.panicked THEN w1
             ELSE LET w2 == push_events(w1, evs)
                      kept == Retain(parent_children, LAMBDA x : ~Contains(cs, x))
                  IN  IF kept = << >>
                      THEN [w2 EXCEPT !.children[p] = None]
                      ELSE [w2 EXCEPT !.children[p] = Some(kept)]

\* World::spawn / World::spawn_empty: the next handle, alive and bare.
spawn(w) ==
    [w EXCEPT !.spawned = @ + 1, !.alive = @ \cup {w.spawned + 1}]

\* EntityWorldMut::despawn: the entity leaves the store with its components;
\* the components of the other entities keep naming it.
despawn(w, e) ==
    [w EXCEPT !.alive = @ \ {e}, !.parent[e] = None, !.children[e] = None]

\* push_child that inserts the child at the head of the list.
push_child_front(w, p, child) ==
    IF IsSome(w.children[p])
    THEN [w EXCEPT !.children[p] =
             Some(<<child>> \o Retain(Unwrap(@), LAMBDA value : child /= value))]
    ELSE [w EXCEPT !.children[p] = Some(<<child>>)]

\* The Children write shared by with_child and add_child: retain, then push.
push_child(w, p, child) ==
    IF IsSome(w.children[p])
    THEN [w EXCEPT !.children[p] =
             Some(Append(Retain(Unwrap(@), LAMBDA value : child /= value), child))]
    ELSE [w EXCEPT !.children[p] = Some(<<child>>)]

\* EntityWorldMut::with_child
with_child(w, p) ==
    LET child == w.spawned + 1
        w1 == [spawn(w) EXCEPT !.parent[child] = Some(p)]
    IN  push_child(w1, p, child)

\* add_child without the `child == parent` check.
add_child_unguarded(w, p, child) ==
    LET w1 == update_old_parent(w, child, p)
    IN  IF w1.panicked THEN w1
        ELSE IF IsSome(w1.children[p])
        THEN [w1 EXCEPT !.children[p] =
                 Some(Append(Retain(Unwrap(@), LAMBDA value : child /= value), child))]
        ELSE [w1 EXCEPT !.children[p] = Some(<<child>>)]

\* EntityWorldMut::add_child
add_child(w, p, child) ==
    IF child = p THEN Panic(w)
    ELSE LET w1 == update_old_parent(w, child, p)
         IN  IF w1.panicked THEN w1 ELSE push_child(w1, p, child)

\* add_children that checks `children.contains(&parent)` after
\* update_old_parents has run.
add_children_late_check(w, p, cs) ==
    IF cs = << >> THEN w
    ELSE LET w1 == update_old_parents(w, p, cs)
         IN  IF w1.panicked THEN w1
             ELSE IF Contains(cs, p) THEN Panic(w1)
             ELSE IF IsSome(w1.children[p])
             THEN [w1 EXCEPT !.children[p] =
                      Some(Retain(Unwrap(@), LAMBDA value : ~Contains(cs, value)) \o cs)]
             ELSE [w1 EXCEPT !.children[p] = Some(cs)]

\* add_children without the retain before the extend.
add_children_no_retain(w, p, cs) ==
    IF cs = << >> THEN w
    ELSE IF Contains(cs, p) THEN Panic(w)
    ELSE LET w1 == update_old_parents(w, p, cs)
         IN  IF w1.panicked THEN w1
             ELSE IF IsSome(w1.children[p])
             THEN [w1 EXCEPT !.children[p] = Some(Unwrap(@) \o cs)]
             ELSE [w1 EXCEPT !.children[p] = Some(cs)]

\* add_children that leaves a child that is already in the list where it is
\* and extends the list with the others.
add_children_keep_present(w, p, cs) ==
    IF cs = << >> THEN w
    ELSE IF Contains(cs, p) THEN Panic(w)
    ELSE LET w1 == update_old_parents(w, p, cs)
         IN  IF w1.panicked THEN w1
             ELSE IF IsSome(w1.children[p])
             THEN [w1 EXCEPT !.children[p] =
                      Some(Unwrap(@) \o
                           SelectSeq(cs, LAMBDA c : ~Contains(Unwrap(w1.children[p]), c)))]
             ELSE [w1 EXCEPT !.children[p] = Some(cs)]

\* EntityWorldMut::add_children
add_children(w, p, cs) ==
    IF cs = << >> THEN w
    ELSE IF Contains(cs, p) THEN Panic(w)
    ELSE LET w1 == update_old_parents(w, p, cs)
         IN  IF w1.panicked THEN w1
             ELSE IF IsSome(w1.children[p])
             THEN [w1 EXCEPT !.children[p] =
                      Some(Retain(Unwrap(@), LAMBDA value : ~Contains(cs, value)) \o cs)]
             ELSE [w1 EXCEPT !.children[p] = Some(cs)]

\* SmallVec::insert_from_slice(index, slice): assert!(index <= len).
insert_from_slice(s, index, slice) ==
    SubSeq(s, 1, index) \o slice \o SubSeq(s, index + 1, Len(s))

\* insert_children without the retain before the insert_from_slice.
insert_children_no_retain(w, p, index, cs) ==
    IF Contains(cs, p) THEN Panic(w)
    ELSE LET w1 == update_old_parents(w, p, cs)
         IN  IF w1.panicked THEN w1
             ELSE IF IsSome(w1.children[p])
             THEN LET kept == Unwrap(w1.children[p])
                  IN  IF index > Len(kept)
                      THEN Panic(w1)
                      ELSE [w1 EXCEPT !.children[p] =
                               Some(insert_from_slice(kept, index, cs))]
             ELSE [w1 EXCEPT !.children[p] = Some(cs)]

\* EntityWorldMut::insert_children
insert_children(w, p, index, cs) ==
    IF Contains(cs, p) THEN Panic(w)
    ELSE LET w1 == update_old_parents(w, p, cs)
         IN  IF w1.panicked THEN w1
             ELSE IF IsSome(w1.children[p])
             THEN LET kept == Retain(Unwrap(w1.children[p]),
                                     LAMBDA value : ~Contains(cs, value))
                  IN  IF index > Len(kept)
                      THEN Panic([w1 EXCEPT !.children[p] = Some(kept)])
                      ELSE [w1 EXCEPT !.children[p] =
                               Some(insert_from_slice(kept, index, cs))]
             ELSE [w1 EXCEPT !.children[p] = Some(cs)]

\* EntityWorldMut::remove_children
remove_children(w, p, cs) == remove_children_fn(w, p, cs)

\* remove_parent that detaches the child and sends no ChildRemoved.
remove_parent_silent(w, child) ==
    IF IsSome(w.parent[child])
    THEN remove_from_children([w EXCEPT !.parent[child] = None],
                              Unwrap(w.parent[child]), child)
    ELSE w

\* remove_parent that takes the Parent and leaves the parent's Children alone.
remove_parent_no_detach(w, child) ==
    IF IsSome(w.parent[child])
    THEN push_events([w EXCEPT !.parent[child] = None],
                     <<ChildRemoved(child, Unwrap(w.parent[child]))>>)
    ELSE w

\* EntityWorldMut::remove_parent
remove_parent(w, child) ==
    IF IsSome(w.parent[child])
    THEN LET p == Unwrap(w.parent[child])
             w1 == [w EXCEPT !.parent[child] = None]
         IN  push_events(remove_from_children(w1, p, child),
                         <<ChildRemoved(child, p)>>)
    ELSE w

\* The `for &child in &children.0` loop of clear_children.
RECURSIVE clear_children_loop(_, _, _)
clear_children_loop(w, cs, i) ==
    IF i > Len(cs) THEN w
    ELSE IF cs[i] \notin w.alive THEN Panic(w)
    ELSE clear_children_loop([w EXCEPT !.parent[cs[i]] = None], cs, i + 1)

\* clear_children that sends a ChildRemoved for every child, as
\* remove_children does.
clear_children_notifying(w, p) ==
    IF IsSome(w.children[p])
    THEN LET cs == Unwrap(w.children[p])
             w1 == clear_children_loop([w EXCEPT !.children[p] = None], cs, 1)
         IN  IF w1.panicked THEN w1
             ELSE push_events(w1, [i \in 1..Len(cs) |-> ChildRemoved(cs[i], p)])
    ELSE w

\* EntityWorldMut::clear_children
clear_children(w, p) ==
    IF IsSome(w.children[p])
    THEN clear_children_loop([w EXCEPT !.children[p] = None],
                             Unwrap(w.children[p]), 1)
    ELSE w

\* replace_children that empties the list with remove_children, which sends a
\* ChildRemoved for every previous child, in place of clear_children.
replace_children_removing(w, p, cs) ==
    LET w1 == remove_children_fn(
                  w, p, IF IsSome(w.children[p]) THEN Unwrap(w.children[p]) ELSE << >>)
    IN  IF w1.panicked THEN w1 ELSE add_children(w1, p, cs)

\* replace_children without the clear_children before the add_children.
replace_children_no_clear(w, p, cs) == add_children(w, p, cs)

\* EntityWorldMut::replace_children
replace_children(w, p, cs) ==
    LET w1 == clear_children(w, p)
    IN  IF w1.panicked THEN w1 ELSE add_children(w1, p, cs)

\* EntityWorldMut::set_parent: world.entity_mut(parent) panics on a missing
\* entity, then add_child runs on the parent.
set_parent(w, child, p) ==
    IF p \notin w.alive THEN Panic(w) ELSE add_child(w, p, child)

\* WorldChildBuilder::spawn, called n times by the closure of with_children.
RECURSIVE WorldChildBuilder_spawn(_, _, _)
WorldChildBuilder_spawn(w, p, n) ==
    IF n = 0 \/ w.panicked THEN w
    ELSE LET entity == w.spawned + 1
             w1 == [spawn(w) EXCEPT !.parent[entity] = Some(p)]
             w2 == add_child_unchecked(w1, p, entity)
         IN  IF w2.panicked THEN w2
             ELSE WorldChildBuilder_spawn(
                      push_events(w2, <<ChildAdded(entity, p)>>), p, n - 1)

\* EntityWorldMut::with_children, with a closure that spawns n children.
with_children(w, p, n) == WorldChildBuilder_spawn(w, p, n)

(***************************************************************************)
(* The deferred builder: impl BuildChildren for EntityCommands.  Recording *)
(* checks the self-reference precondition and queues a command; a command  *)
(* is the call the queued closure makes when the queue is applied.         *)
(***************************************************************************)
Call(via, op, entity, other, cs, index) ==
    [via |-> via, op |-> op, entity |-> entity, other |-> other,
     children |-> cs, index |-> index]

NoCall == Call("none", "none", 0, 0, << >>, 0)

\* What recording a call does: it panics, or it queues these commands.
Recorded(panics, cmds) == [panics |-> panics, cmds |-> cmds]

\* EntityCommands::add_child
commands_add_child(p, child) ==
    Recorded(child = p, <<Call("commands", "add_child", p, child, << >>, 0)>>)

\* EntityCommands::add_children
commands_add_children(p, cs) ==
    Recorded(Contains(cs, p), <<Call("commands", "add_children", p, 0, cs, 0)>>)

\* EntityCommands::insert_children
commands_insert_children(p, index, cs) ==
    Recorded(Contains(cs, p), <<Call("commands", "insert_children", p, 0, cs, index)>>)

\* EntityCommands::remove_children
commands_remove_children(p, cs) ==
    Recorded(FALSE, <<Call("commands", "remove_children", p, 0, cs, 0)>>)

\* EntityCommands::clear_children
commands_clear_children(p) ==
    Recorded(FALSE, <<Call("commands", "clear_children", p, 0, << >>, 0)>>)

\* EntityCommands::replace_children that queues its closure without looking
\* for the entity among the children.
commands_replace_children_unchecked(p, cs) ==
    Recorded(FALSE, <<Call("commands", "replace_children", p, 0, cs, 0)>>)

\* EntityCommands::replace_children
commands_replace_children(p, cs) ==
    Recorded(Contains(cs, p), <<Call("commands", "replace_children", p, 0, cs, 0)>>)

\* EntityCommands::set_parent whose closure takes the entity for the parent
\* and the argument for the child.
commands_set_parent_swapped(child, p) ==
    Recorded(child = p, <<Call("commands", "set_parent", p, child, << >>, 0)>>)

\* EntityCommands::set_parent
commands_set_parent(child, p) ==
    Recorded(child = p, <<Call("commands", "set_parent", child, p, << >>, 0)>>)

\* EntityCommands::remove_parent
commands_remove_parent(child) ==
    Recorded(FALSE, <<Call("commands", "remove_parent", child, 0, << >>, 0)>>)

\* Commands::spawn(bundle) on the reserved handle e: the command that inserts
\* the bundle.
commands_spawn(e) == Call("commands", "insert", e, 0, << >>, 0)

\* EntityCommands::with_child: the child is the handle commands.spawn reserves.
commands_with_child(p, child) ==
    Recorded(FALSE, <<commands_spawn(child),
                      Call("commands", "add_child", p, child, << >>, 0)>>)

\* with_children that queues its add_children command before it runs the
\* closure.
commands_with_children_early(p, cs) ==
    Recorded(Contains(cs, p),
             <<Call("commands", "add_children", p, 0, cs, 0)>>
                 \o [i \in 1..Len(cs) |-> commands_spawn(cs[i])])

\* EntityCommands::with_children, with a closure that spawns the handles cs
\* through ChildBuilder::spawn: the closure's commands, then one add_children
\* command.
commands_with_children(p, cs) ==
    Recorded(Contains(cs, p),
             [i \in 1..Len(cs) |-> commands_spawn(cs[i])]
                 \o <<Call("commands", "add_children", p, 0, cs, 0)>>)

\* The closure a command runs: world.entity_mut(entity) panics on a missing
\* entity, then the immediate operation runs.
run_command(w, cmd) ==
    IF cmd.op = "set_parent" THEN set_parent(w, cmd.entity, cmd.other)
    ELSE IF cmd.entity \notin w.alive THEN Panic(w)
    ELSE CASE cmd.op = "add_child" -> add_child(w, cmd.entity, cmd.other)
           [] cmd.op = "add_children" -> add_children(w, cmd.entity, cmd.children)
           [] cmd.op = "insert_children" ->
                  insert_children(w, cmd.entity, cmd.index, cmd.children)
           [] cmd.op = "remove_children" -> remove_children(w, cmd.entity, cmd.children)
           [] cmd.op = "clear_children" -> clear_children(w, cmd.entity)
           [] cmd.op = "replace_children" ->
                  replace_children(w, cmd.entity, cmd.children)
           [] cmd.op = "remove_parent" -> remove_parent(w, cmd.entity)
           [] cmd.op = "insert" -> w

\* World::flush_entities: every reserved handle becomes a bare live entity.
flush_entities(w) == [w EXCEPT !.alive = 1..w.spawned]

\* The commands of the queue from index i on, in the order they were queued;
\* a panic unwinds out of the queue.
RECURSIVE apply_from(_, _, _)
apply_from(w, q, i) ==
    IF i > Len(q) \/ w.panicked THEN w
    ELSE apply_from(run_command(w, q[i]), q, i + 1)

\* A queue that runs the command recorded last first.
apply_last_first(w, q) ==
    apply_from(flush_entities(w), [i \in 1..Len(q) |-> q[Len(q) + 1 - i]], 1)

\* CommandQueue::apply(world)
apply(w, q) == apply_from(flush_entities(w), q, 1)

(***************************************************************************)
(* The state machine.  `call` is the call that ran last (NoCall once the   *)
(* caller has looked at the result), `pre` the world it started from and   *)
(* `chain` how many identical calls ran right before it.                   *)
(***************************************************************************)
\* The handles a caller can hold: every handle handed out so far.
Handles == 1..spawned

\* How many handles the store hands out in this run.
Capacity == Cardinality(Entity)

\* The slices a caller can pass, and the duplicate-free ones among them.
Slices == UNION {[1..n -> Handles] : n \in 0..MaxLen}

DistinctSlices == {cs \in Slices : \A i, j \in 1..Len(cs) : cs[i] = cs[j] => i = j}

EmptyWorld(E, sink) ==
    [spawned |-> 0, alive |-> {}, parent |-> [e \in E |-> None],
     children |-> [e \in E |-> None], events |-> << >>, sink |-> sink,
     panicked |-> FALSE]

SetWorld(w) ==
    /\ spawned' = w.spawned
    /\ alive' = w.alive
    /\ parent' = w.parent
    /\ children' = w.children
    /\ events' = w.events
    /\ has_events' = w.sink
    /\ panicked' = w.panicked

\* World::new() over the handles E, then (sink) or not
\* insert_resource(Events::<HierarchyEvent>::default()).
InitOver(E, sink) ==
    /\ has_events = sink
    /\ spawned = 0
    /\ alive = {}
    /\ parent = [e \in E |-> None]
    /\ children = [e \in E |-> None]
    /\ events = << >>
    /\ panicked = FALSE
    /\ queue = << >>
    /\ call = NoCall
    /\ pre = EmptyWorld(E, has_events)
    /\ chain = 0
    /\ twin = EmptyWorld(E, FALSE)

Init == InitOver(1..NumEntities, TRUE)

\* `this` is again the immediate call that ran last.
Chained(this) == call.via = "world" /\ call = this

\* A call on the immediate builder, on a world the caller has looked at or
\* chained right after the same call, that leaves the store as w and the
\* second store as t.
OnBoth(this, w, t) ==
    /\ ~panicked
    /\ queue = << >>
    /\ call = NoCall \/ (Chained(this) /\ chain < MaxChain)
    /\ SetWorld(w)
    /\ call' = this
    /\ pre' = World
    /\ chain' = IF Chained(this) THEN chain + 1 ELSE 0
    /\ twin' = t
    /\ UNCHANGED queue

\* A call on the immediate builder of the store alone.
Immediate(this, w) == OnBoth(this, w, twin)

\* A call on the deferred builder that reserves `fresh` new handles: it
\* panics at once, or its commands join the queue and the world stays as it is.
Deferred(this, r, fresh) ==
    /\ ~panicked
    /\ call = NoCall
    /\ Len(queue) < MaxQueue
    /\ spawned + fresh <= Capacity
    /\ spawned' = spawned + fresh
    /\ IF r.panics
       THEN /\ panicked' = TRUE
            /\ call' = this
            /\ pre' = World
            /\ UNCHANGED queue
       ELSE /\ queue' = queue \o r.cmds
            /\ UNCHANGED <<panicked, call, pre>>
    /\ UNCHANGED <<alive, parent, children, events, has_events, chain, twin>>

\* world.spawn_empty()
Spawn ==
    /\ ~panicked
    /\ call = NoCall
    /\ queue = << >>
    /\ spawned < Capacity
    /\ SetWorld(spawn(World))
    /\ pre' = spawn(World)
    /\ UNCHANGED <<queue, call, chain, twin>>

\* world.entity_mut(e).despawn()
Despawn ==
    \E e \in alive :
        /\ ~panicked
        /\ call = NoCall
        /\ queue = << >>
        /\ SetWorld(despawn(World, e))
        /\ pre' = despawn(World, e)
        /\ UNCHANGED <<queue, call, chain, twin>>

\* The caller reads the result and drains the events (assert_events).
Observe ==
    /\ ~panicked
    /\ call /= NoCall
    /\ queue = << >>
    /\ events' = << >>
    /\ call' = NoCall
    /\ chain' = 0
    /\ pre' = [World EXCEPT !.events = << >>]
    /\ UNCHANGED <<spawned, alive, parent, children, has_events, panicked, queue,
                   twin>>

\* queue.apply(&mut world)
Apply ==
    /\ ~panicked
    /\ queue /= << >>
    /\ SetWorld(apply(World, queue))
    /\ queue' = << >>
    /\ call' = Call("commands", "apply", 0, 0, queue, 0)
    /\ pre' = World
    /\ UNCHANGED <<chain, twin>>

WithChild ==
    \E p \in alive :
        /\ spawned < Capacity
        /\ Immediate(Call("world", "with_child", p, 0, << >>, 0), with_child(World, p))

WithChildren ==
    \E p \in alive, n \in 0..MaxLen :
        /\ spawned + n <= Capacity
        /\ Immediate(Call("world", "with_children", p, 0, << >>, n),
                     with_children(World, p, n))

AddChild ==
    \E p \in alive, c \in Handles :
        Immediate(Call("world", "add_child", p, c, << >>, 0), add_child(World, p, c))

AddChildrenOf(S) ==
    \E p \in alive, cs \in S :
        Immediate(Call("world", "add_children", p, 0, cs, 0), add_children(World, p, cs))

InsertChildrenOf(S) ==
    \E p \in alive, cs \in S, index \in 0..MaxIndex :
        Immediate(Call("world", "insert_children", p, 0, cs, index),
                  insert_children(World, p, index, cs))

RemoveChildrenOf(S) ==
    \E p \in alive, cs \in S :
        Immediate(Call("world", "remove_children", p, 0, cs, 0),
                  remove_children(World, p, cs))

ReplaceChildrenOf(S) ==
    \E p \in alive, cs \in S :
        Immediate(Call("world", "replace_children", p, 0, cs, 0),
                  replace_children(World, p, cs))

ClearChildren ==
    \E p \in alive :
        Immediate(Call("world", "clear_children", p, 0, << >>, 0),
                  clear_children(World, p))

SetParent ==
    \E c \in alive, p \in Handles :
        Immediate(Call("world", "set_parent", c, p, << >>, 0), set_parent(World, c, p))

RemoveParent ==
    \E c \in alive :
        Immediate(Call("world", "remove_parent", c, 0, << >>, 0),
                  remove_parent(World, c))

AddChildren == AddChildrenOf(Slices)
InsertChildren == InsertChildrenOf(Slices)
RemoveChildren == RemoveChildrenOf(Slices)
ReplaceChildren == ReplaceChildrenOf(Slices)

CommandsWithChild ==
    \E p \in Handles :
        Deferred(Call("commands", "with_child", p, 0, << >>, 0),
                 commands_with_child(p, spawned + 1), 1)

CommandsWithChildren ==
    \E p \in Handles, n \in 0..MaxLen :
        Deferred(Call("commands", "with_children", p, 0, << >>, n),
                 commands_with_children(p, [i \in 1..n |-> spawned + i]), n)

CommandsAddChild ==
    \E p \in Handles, c \in Handles :
        Deferred(Call("commands", "add_child", p, c, << >>, 0),
                 commands_add_child(p, c), 0)

CommandsAddChildren ==
    \E p \in Handles, cs \in Slices :
        Deferred(Call("commands", "add_children", p, 0, cs, 0),
                 commands_add_children(p, cs), 0)

CommandsInsertChildren ==
    \E p \in Handles, cs \in Slices, index \in 0..MaxIndex :
        Deferred(Call("commands", "insert_children", p, 0, cs, index),
                 commands_insert_children(p, index, cs), 0)

CommandsRemoveChildren ==
    \E p \in Handles, cs \in Slices :
        Deferred(Call("commands", "remove_children", p, 0, cs, 0),
                 commands_remove_children(p, cs), 0)

CommandsReplaceChildren ==
    \E p \in Handles, cs \in Slices :
        Deferred(Call("commands", "replace_children", p, 0, cs, 0),
                 commands_replace_children(p, cs), 0)

CommandsClearChildren ==
    \E p \in Handles :
        Deferred(Call("commands", "clear_children", p, 0, << >>, 0),
                 commands_clear_children(p), 0)

CommandsSetParent ==
    \E c \in Handles, p \in Handles :
        Deferred(Call("commands", "set_parent", c, p, << >>, 0),
                 commands_set_parent(c, p), 0)

CommandsRemoveParent ==
    \E c \in Handles :
        Deferred(Call("commands", "remove_parent", c, 0, << >>, 0),
                 commands_remove_parent(c), 0)

Next ==
    \/ Spawn
    \/ Observe
    \/ WithChild
    \/ WithChildren
    \/ AddChild
    \/ AddChildren
    \/ InsertChildren
    \/ RemoveChildren
    \/ ReplaceChildren
    \/ ClearChildren
    \/ SetParent
    \/ RemoveParent
    \/ CommandsWithChild
    \/ CommandsWithChildren
    \/ CommandsAddChild
    \/ CommandsAddChildren
    \/ CommandsInsertChildren
    \/ CommandsRemoveChildren
    \/ CommandsReplaceChildren
    \/ CommandsClearChildren
    \/ CommandsSetParent
    \/ CommandsRemoveParent
    \/ Apply

Spec == Init /\ [][Next]_vars

(***************************************************************************)
(* The immediate builder over one more handle, called with duplicate-free  *)
(* slices: a parent can keep two children while a third one moves.         *)
(***************************************************************************)
WideAddChildren == AddChildrenOf(DistinctSlices)

InitWide == InitOver(1..WideEntities, TRUE)

NextWide ==
    \/ Spawn
    \/ Observe
    \/ AddChild
    \/ SetParent
    \/ WideAddChildren

SpecWide == InitWide /\ [][NextWide]_vars

(***************************************************************************)
(* The removing operations over the wider store: remove_children           *)
(* with duplicate-free slices, remove_parent and clear_children, on        *)
(* hierarchies built with add_child.                                       *)
(***************************************************************************)
WideRemoveChildren == RemoveChildrenOf(DistinctSlices)

NextRemove ==
    \/ Spawn
    \/ Observe
    \/ AddChild
    \/ WideRemoveChildren
    \/ RemoveParent
    \/ ClearChildren

SpecRemove == InitWide /\ [][NextRemove]_vars

(***************************************************************************)
(* replace_children with duplicate-free slices over the wider store.       *)
(***************************************************************************)
WideReplaceChildren == ReplaceChildrenOf(DistinctSlices)

NextReplace ==
    \/ Spawn
    \/ Observe
    \/ AddChild
    \/ WideReplaceChildren

SpecReplace == InitWide /\ [][NextReplace]_vars

(***************************************************************************)
(* insert_children with duplicate-free slices over the wider store.        *)
(***************************************************************************)
WideInsertChildren == InsertChildrenOf(DistinctSlices)

NextInsert ==
    \/ Spawn
    \/ Observe
    \/ AddChild
    \/ WideInsertChildren

SpecInsert == InitWide /\ [][NextInsert]_vars

(***************************************************************************)
(* Reparenting in a store whose entities can be despawned: a Parent can    *)
(* name an entity that no longer exists.                                   *)
(***************************************************************************)
NextStale ==
    \/ Spawn
    \/ Observe
    \/ Despawn
    \/ AddChild
    \/ SetParent

SpecStale == InitWide /\ [][NextStale]_vars

(***************************************************************************)
(* The batch operations in a store whose entities can be despawned: a      *)
(* slice, or a Children, can name an entity that no longer exists.         *)
(***************************************************************************)
NextChurn ==
    \/ Spawn
    \/ Observe
    \/ Despawn
    \/ AddChild
    \/ WideAddChildren
    \/ WideInsertChildren
    \/ WideRemoveChildren
    \/ ClearChildren

SpecChurn == Init /\ [][NextChurn]_vars

(***************************************************************************)
(* Two stores side by side: every call of the immediate builder is made    *)
(* with the same arguments on the store with the Events<HierarchyEvent>    *)
(* resource and on the second store, which has none.                       *)
(***************************************************************************)
TwinSpawn ==
    /\ ~panicked
    /\ call = NoCall
    /\ queue = << >>
    /\ spawned < Capacity
    /\ SetWorld(spawn(World))
    /\ pre' = spawn(World)
    /\ twin' = spawn(twin)
    /\ UNCHANGED <<queue, call, chain>>

TwinWithChild ==
    \E p \in alive :
        /\ spawned < Capacity
        /\ OnBoth(Call("world", "with_child", p, 0, << >>, 0),
                  with_child(World, p), with_child(twin, p))

TwinWithChildren ==
    \E p \in alive, n \in 0..MaxLen :
        /\ spawned + n <= Capacity
        /\ OnBoth(Call("world", "with_children", p, 0, << >>, n),
                  with_children(World, p, n), with_children(twin, p, n))

TwinAddChild ==
    \E p \in alive, c \in Handles :
        OnBoth(Call("world", "add_child", p, c, << >>, 0),
               add_child(World, p, c), add_child(twin, p, c))

TwinAddChildren ==
    \E p \in alive, cs \in Slices :
        OnBoth(Call("world", "add_children", p, 0, cs, 0),
               add_children(World, p, cs), add_children(twin, p, cs))

TwinInsertChildren ==
    \E p \in alive, cs \in Slices, index \in 0..MaxIndex :
        OnBoth(Call("world", "insert_children", p, 0, cs, index),
               insert_children(World, p, index, cs),
               insert_children(twin, p, index, cs))

TwinRemoveChildren ==
    \E p \in alive, cs \in Slices :
        OnBoth(Call("world", "remove_children", p, 0, cs, 0),
               remove_children(World, p, cs), remove_children(twin, p, cs))

TwinReplaceChildren ==
    \E p \in alive, cs \in Slices :
        OnBoth(Call("world", "replace_children", p, 0, cs, 0),
               replace_children(World, p, cs), replace_children(twin, p, cs))

TwinClearChildren ==
    \E p \in alive :
        OnBoth(Call("world", "clear_children", p, 0, << >>, 0),
               clear_children(World, p), clear_children(twin, p))

TwinSetParent ==
    \E c \in alive, p \in Handles :
        OnBoth(Call("world", "set_parent", c, p, << >>, 0),
               set_parent(World, c, p), set_parent(twin, c, p))

TwinRemoveParent ==
    \E c \in alive :
        OnBoth(Call("world", "remove_parent", c, 0, << >>, 0),
               remove_parent(World, c), remove_parent(twin, c))

NextTwin ==
    \/ TwinSpawn
    \/ Observe
    \/ TwinWithChild
    \/ TwinWithChildren
    \/ TwinAddChild
    \/ TwinAddChildren
    \/ TwinInsertChildren
    \/ TwinRemoveChildren
    \/ TwinReplaceChildren
    \/ TwinClearChildren
    \/ TwinSetParent
    \/ TwinRemoveParent

SpecTwin == Init /\ [][NextTwin]_vars

(***************************************************************************)
(* The two builders side by side: a call is recorded on the deferred       *)
(* builder of the store and made on the immediate builder of the second    *)
(* store, which has the Events<HierarchyEvent> resource too; then the      *)
(* queue is applied.                                                       *)
(***************************************************************************)
InitModes ==
    /\ has_events = TRUE
    /\ spawned = 0
    /\ alive = {}
    /\ parent = [e \in 1..NumEntities |-> None]
    /\ children = [e \in 1..NumEntities |-> None]
    /\ events = << >>
    /\ panicked = FALSE
    /\ queue = << >>
    /\ call = NoCall
    /\ pre = EmptyWorld(1..NumEntities, TRUE)
    /\ chain = 0
    /\ twin = EmptyWorld(1..NumEntities, TRUE)

\* A call whose precondition holds: recorded on the store's deferred builder
\* (r), made on the second store's immediate builder (t).
OnBothBuilders(r, t) ==
    /\ ~panicked
    /\ call = NoCall
    /\ queue = << >>
    /\ ~r.panics
    /\ queue' = r.cmds
    /\ twin' = t
    /\ UNCHANGED <<spawned, alive, parent, children, events, has_events, panicked,
                   call, pre, chain>>

\* The caller drains the events of both stores.
ModesObserve ==
    /\ ~panicked
    /\ call /= NoCall
    /\ queue = << >>
    /\ events' = << >>
    /\ twin' = [twin EXCEPT !.events = << >>]
    /\ call' = NoCall
    /\ chain' = 0
    /\ pre' = [World EXCEPT !.events = << >>]
    /\ UNCHANGED <<spawned, alive, parent, children, has_events, panicked, queue>>

ModesAddChild ==
    \E p \in alive, c \in Handles :
        OnBothBuilders(commands_add_child(p, c), add_child(twin, p, c))

ModesAddChildren ==
    \E p \in alive, cs \in Slices :
        OnBothBuilders(commands_add_children(p, cs), add_children(twin, p, cs))

ModesInsertChildren ==
    \E p \in alive, cs \in Slices, index \in 0..MaxIndex :
        OnBothBuilders(commands_insert_children(p, index, cs),
                       insert_children(twin, p, index, cs))

ModesRemoveChildren ==
    \E p \in alive, cs \in Slices :
        OnBothBuilders(commands_remove_children(p, cs), remove_children(twin, p, cs))

ModesReplaceChildren ==
    \E p \in alive, cs \in Slices :
        OnBothBuilders(commands_replace_children(p, cs),
                       replace_children(twin, p, cs))

ModesClearChildren ==
    \E p \in alive :
        OnBothBuilders(commands_clear_children(p), clear_children(twin, p))

ModesSetParent ==
    \E c \in alive, p \in alive :
        OnBothBuilders(commands_set_parent(c, p), set_parent(twin, c, p))

ModesRemoveParent ==
    \E c \in alive :
        OnBothBuilders(commands_remove_parent(c), remove_parent(twin, c))

NextModes ==
    \/ TwinSpawn
    \/ ModesObserve
    \/ ModesAddChild
    \/ ModesAddChildren
    \/ ModesInsertChildren
    \/ ModesRemoveChildren
    \/ ModesReplaceChildren
    \/ ModesClearChildren
    \/ ModesSetParent
    \/ ModesRemoveParent
    \/ Apply

SpecModes == InitModes /\ [][NextModes]_vars

(***************************************************************************)
(* The deferred with_children on its own, over the wider store: the call   *)
(* is recorded on an empty queue and remembered until the queue is         *)
(* applied.                                                                *)
(***************************************************************************)
BuildWithChildren ==
    \E p \in alive, n \in 0..MaxLen :
        LET r == commands_with_children(p, [i \in 1..n |-> spawned + i])
        IN  /\ ~panicked
            /\ call = NoCall
            /\ queue = << >>
            /\ spawned + n <= Capacity
            /\ spawned' = spawned + n
            /\ panicked' = r.panics
            /\ queue' = IF r.panics THEN queue ELSE r.cmds
            /\ call' = Call("commands", "with_children", p, 0, << >>, n)
            /\ pre' = World
            /\ UNCHANGED <<alive, parent, children, events, has_events, chain, twin>>

NextBuild ==
    \/ Spawn
    \/ Observe
    \/ AddChild
    \/ BuildWithChildren
    \/ Apply

SpecBuild == InitWide /\ [][NextBuild]_vars

(***************************************************************************)
(* Several calls in a row on the two builders: each call is recorded on    *)
(* the store's deferred builder and made at once on the second store's     *)
(* immediate builder; the queue is applied after at most MaxPending calls. *)
(***************************************************************************)
OnBothInTurn(r, t) ==
    /\ ~panicked
    /\ ~twin.panicked
    /\ call = NoCall
    /\ Len(queue) < MaxPending
    /\ ~r.panics
    /\ queue' = queue \o r.cmds
    /\ twin' = t
    /\ UNCHANGED <<spawned, alive, parent, children, events, has_events, panicked,
                   call, pre, chain>>

QueueAddChild ==
    \E p \in alive, c \in alive :
        OnBothInTurn(commands_add_child(p, c), add_child(twin, p, c))

QueueSetParent ==
    \E c \in alive, p \in alive :
        OnBothInTurn(commands_set_parent(c, p), set_parent(twin, c, p))

QueueRemoveParent ==
    \E c \in alive :
        OnBothInTurn(commands_remove_parent(c), remove_parent(twin, c))

QueueClearChildren ==
    \E p \in alive :
        OnBothInTurn(commands_clear_children(p), clear_children(twin, p))

NextQueue ==
    \/ TwinSpawn
    \/ ModesObserve
    \/ QueueAddChild
    \/ QueueSetParent
    \/ QueueRemoveParent
    \/ QueueClearChildren
    \/ Apply

SpecQueue == InitModes /\ [][NextQueue]_vars

(***************************************************************************)
(* The five calls of the deferred builder that check for self-reference,   *)
(* recorded also while an earlier command waits in the queue: a call that  *)
(* panics queues nothing, so the bound on the queue does not hold it back. *)
(***************************************************************************)
Recording(this, r) ==
    /\ ~panicked
    /\ call = NoCall
    /\ r.panics \/ Len(queue) < MaxQueue
    /\ IF r.panics
       THEN /\ panicked' = TRUE
            /\ call' = this
            /\ pre' = World
            /\ UNCHANGED queue
       ELSE /\ queue' = queue \o r.cmds
            /\ UNCHANGED <<panicked, call, pre>>
    /\ UNCHANGED <<spawned, alive, parent, children, events, has_events, chain,
                   twin>>

RecordAddChild ==
    \E p \in alive, c \in alive :
        Recording(Call("commands", "add_child", p, c, << >>, 0),
                  commands_add_child(p, c))

RecordSetParent ==
    \E c \in alive, p \in alive :
        Recording(Call("commands", "set_parent", c, p, << >>, 0),
                  commands_set_parent(c, p))

RecordAddChildren ==
    \E p \in alive, cs \in DistinctSlices :
        Recording(Call("commands", "add_children", p, 0, cs, 0),
                  commands_add_children(p, cs))

RecordInsertChildren ==
    \E p \in alive, cs \in DistinctSlices, index \in 0..MaxIndex :
        Recording(Call("commands", "insert_children", p, 0, cs, index),
                  commands_insert_children(p, index, cs))

RecordReplaceChildren ==
    \E p \in alive, cs \in DistinctSlices :
        Recording(Call("commands", "replace_children", p, 0, cs, 0),
                  commands_replace_children(p, cs))

NextReject ==
    \/ Spawn
    \/ Observe
    \/ RecordAddChild
    \/ RecordSetParent
    \/ RecordAddChildren
    \/ RecordInsertChildren
    \/ RecordReplaceChildren
    \/ Apply

SpecReject == Init /\ [][NextReject]_vars

(***************************************************************************)
(* Properties.  children(P) is the list of P's Children component, empty   *)
(* when P has none.                                                        *)
(***************************************************************************)
ListOf(o) == IF IsSome(o) THEN Unwrap(o) ELSE << >>

Distinct(s) == \A i, j \in 1..Len(s) : s[i] = s[j] => i = j

\* The last call was made on the immediate builder.
ImmediateCall(op) == call.via = "world" /\ call.op = op

\* C1: after any sequence of completed operations, C is in P's children list
\* if and only if C's parent link is P.
BidirectionalAgreement ==
    ~panicked =>
        \A P \in Entity, C \in Entity :
            Contains(ListOf(children[P]), C) <=> parent[C] = Some(P)

\* A completed insert_children has moved a child from one parent to another.
BidirectionalAgreementWitness ==
    /\ ~panicked
    /\ ImmediateCall("insert_children")
    /\ \E C \in Entity :
           /\ IsSome(pre.parent[C])
           /\ IsSome(parent[C])
           /\ parent[C] /= pre.parent[C]

\* C2: in every reachable state no entity's parent link is the entity itself
\* and no entity occurs in its own children list.
NoSelfReference ==
    \A e \in Entity :
        /\ parent[e] /= Some(e)
        /\ ~Contains(ListOf(children[e]), e)

\* Applying the queue has given an entity a parent link.
NoSelfReferenceWitness ==
    /\ ~panicked
    /\ call.op = "apply"
    /\ \E e \in Entity : IsSome(parent[e]) /\ ~IsSome(pre.parent[e])

\* The last call was an immediate add_child(x, x), set_parent(x, x) or
\* add_children(x, cs) with x in cs.
SelfReferenceCall ==
    /\ call.via = "world"
    /\ \/ call.op \in {"add_child", "set_parent"} /\ call.entity = call.other
       \/ call.op = "add_children" /\ Contains(call.children, call.entity)

\* C3: immediate add_child(x, x), set_parent(x, x) and add_children(x, cs)
\* with x anywhere in cs panic, and every parent link, every children list
\* and the events are as they were before the call.
SelfReferenceRejected ==
    SelfReferenceCall =>
        /\ panicked
        /\ parent = pre.parent
        /\ children = pre.children
        /\ events = pre.events

\* add_children(x, <<c, x>>) was rejected, c being a child of another parent.
SelfReferenceRejectedWitness ==
    /\ SelfReferenceCall
    /\ call.op = "add_children"
    /\ Len(call.children) = 2
    /\ call.children[2] = call.entity
    /\ call.children[1] /= call.entity
    /\ IsSome(pre.parent[call.children[1]])
    /\ panicked

\* C4 (as claimed): immediate replace_children(P, cs) with P in cs leaves P's
\* children list and the parent link of every child of P as they were.
ReplaceSelfLeavesChildren ==
    (ImmediateCall("replace_children") /\ Contains(call.children, call.entity)) =>
        /\ children[call.entity] = pre.children[call.entity]
        /\ \A c \in Entity :
               Contains(ListOf(pre.children[call.entity]), c) =>
                   parent[c] = pre.parent[c]

\* C5 (as claimed): no entity occurs twice in any children list.
DuplicateFreeChildren ==
    \A e \in Entity : Distinct(ListOf(children[e]))

\* C6 (as claimed): a children list that exists has at least one element.
NoEmptyChildren ==
    ~panicked => \A e \in Entity : children[e] /= Some(<< >>)

\* The child and the new parent of an immediate add_child / set_parent.
MovedChild == IF call.op = "add_child" THEN call.other ELSE call.entity
NewParent == IF call.op = "add_child" THEN call.entity ELSE call.other

\* The last call was add_child(B, C) or set_parent(C, B) with parent(C) = A,
\* B /= A and B /= C.
MoveCall ==
    /\ call.via = "world"
    /\ call.op \in {"add_child", "set_parent"}
    /\ NewParent /= MovedChild
    /\ IsSome(pre.parent[MovedChild])
    /\ Unwrap(pre.parent[MovedChild]) /= NewParent

\* C7: the move sets parent(C) = B, removes C from children(A) keeping the
\* order of A's other children, puts C at the tail of children(B) and emits
\* exactly ChildMoved{C, A, B}.
MoveSemantics ==
    MoveCall =>
        LET C == MovedChild
            B == NewParent
            A == Unwrap(pre.parent[C])
        IN  /\ ~panicked
            /\ parent[C] = Some(B)
            /\ ListOf(children[A]) =
                   SelectSeq(ListOf(pre.children[A]), LAMBDA x : x /= C)
            /\ ListOf(children[B]) = Append(ListOf(pre.children[B]), C)
            /\ events = Append(pre.events, ChildMoved(C, A, B))

\* The first of A's three children has moved under one of its siblings.
MoveSemanticsWitness ==
    /\ MoveCall
    /\ LET A == Unwrap(pre.parent[MovedChild])
       IN  /\ Len(ListOf(pre.children[A])) = 3
           /\ ListOf(pre.children[A])[1] = MovedChild
           /\ Contains(ListOf(pre.children[A]), NewParent)

\* The last call was add_child(P, C) with C /= P and C without a parent link.
AddOrphanCall ==
    /\ ImmediateCall("add_child")
    /\ call.other /= call.entity
    /\ ~IsSome(pre.parent[call.other])

\* C8: add_child(P, C) of an orphan sets parent(C) = P, appends C at the tail
\* of children(P), creating the list if P had none, and emits exactly
\* ChildAdded{C, P}.
AddOrphan ==
    AddOrphanCall =>
        LET P == call.entity
            C == call.other
        IN  /\ ~panicked
            /\ parent[C] = Some(P)
            /\ children[P] = Some(Append(ListOf(pre.children[P]), C))
            /\ events = Append(pre.events, ChildAdded(C, P))

\* An orphan was added to a parent that already had a child.
AddOrphanWitness ==
    /\ AddOrphanCall
    /\ Len(ListOf(pre.children[call.entity])) >= 1
    /\ Len(ListOf(children[call.entity])) >= 2

\* The last call was the second of two add_children(P, <<C>>) in a row.
SecondAppendCall ==
    /\ ImmediateCall("add_children")
    /\ Len(call.children) = 1
    /\ chain >= 1

\* C9: after add_children(P, <<C>>) twice in a row children(P) holds C
\* exactly once, parent(C) = P, and the second call has emitted nothing.
IdempotentAppend ==
    SecondAppendCall =>
        LET P == call.entity
            C == call.children[1]
        IN  /\ ~panicked
            /\ Count(ListOf(children[P]), C) = 1
            /\ parent[C] = Some(P)
            /\ events = pre.events

\* The first of the two calls has emitted an event, the second one none.
IdempotentAppendWitness ==
    /\ SecondAppendCall
    /\ pre.events /= << >>
    /\ events = pre.events

\* The last call was add_children(P, cs) with duplicate-free cs, P not in cs.
AppendCall ==
    /\ ImmediateCall("add_children")
    /\ Distinct(call.children)
    /\ ~Contains(call.children, call.entity)

NewEvents == SubSeq(events, Len(pre.events) + 1, Len(events))

\* C11 (as claimed): add_children(P, cs) leaves every c of cs that is already
\* in children(P) with its parent link, at its position in children(P), and
\* emits no notification for it.
AddChildrenLeavesPresent ==
    AppendCall =>
        LET P == call.entity
            before == ListOf(pre.children[P])
            after == ListOf(children[P])
        IN  \A i \in 1..Len(before) :
                Contains(call.children, before[i]) =>
                    /\ parent[before[i]] = pre.parent[before[i]]
                    /\ i <= Len(after)
                    /\ after[i] = before[i]
                    /\ \A k \in 1..Len(NewEvents) : NewEvents[k].child /= before[i]

\* The last call was remove_children(P, cs) with duplicate-free cs.
BatchRemovalCall ==
    /\ ImmediateCall("remove_children")
    /\ Distinct(call.children)

\* C12: remove_children(P, cs) with duplicate-free cs leaves children(P) = the
\* previous list without the elements of cs, order kept; every c of cs that
\* was in the list loses its parent link and gets exactly one
\* ChildRemoved{c, P}, in input order; every other c of cs is ignored: no
\* panic, no event, and its parent link and every other entity's children
\* list are as before.
BatchRemovalSelectivity ==
    BatchRemovalCall =>
        LET P == call.entity
            cs == call.children
            before == ListOf(pre.children[P])
            removed == SelectSeq(cs, LAMBDA c : Contains(before, c))
        IN  /\ ~panicked
            /\ ListOf(children[P]) = SelectSeq(before, LAMBDA x : ~Contains(cs, x))
            /\ NewEvents = [i \in 1..Len(removed) |-> ChildRemoved(removed[i], P)]
            /\ \A c \in Entity :
                   IF Contains(removed, c)
                   THEN parent[c] = None
                   ELSE parent[c] = pre.parent[c]
            /\ \A Q \in Entity \ {P} : children[Q] = pre.children[Q]

\* remove_children(P, <<B, D>>) where P has two children, B is one of them
\* and D is the child of another parent.
BatchRemovalSelectivityWitness ==
    /\ BatchRemovalCall
    /\ Len(call.children) = 2
    /\ Len(ListOf(pre.children[call.entity])) = 2
    /\ Contains(ListOf(pre.children[call.entity]), call.children[1])
    /\ IsSome(pre.parent[call.children[2]])
    /\ pre.parent[call.children[2]] /= Some(call.entity)
    /\ Len(ListOf(children[call.entity])) = 1

\* C13: whenever a completed operation leaves none of the children P had,
\* P's Children is removed: P has no children list, as an entity that never
\* had children.
EmptyListCleanup ==
    ~panicked =>
        \A P \in Entity :
            (ListOf(pre.children[P]) /= << >> /\ ListOf(children[P]) = << >>) =>
                children[P] = None

\* add_child has moved the only child of a parent under another parent.
EmptyListCleanupWitness ==
    /\ ~panicked
    /\ ImmediateCall("add_child")
    /\ \E P \in Entity \ {call.entity} :
           /\ pre.children[P] = Some(<<call.other>>)
           /\ children[P] = None

\* The last call was replace_children(P, new) with duplicate-free new, P not
\* in new.
ReplaceCall ==
    /\ ImmediateCall("replace_children")
    /\ Distinct(call.children)
    /\ ~Contains(call.children, call.entity)

\* C14: replace_children(P, new) leaves children(P) = new in input order (no
\* list when new is empty); every previous child of P that is not in new has
\* no parent link; every element of new has parent link P and is in no other
\* entity's children list.
ReplaceSemantics ==
    ReplaceCall =>
        LET P == call.entity
            new == call.children
            before == ListOf(pre.children[P])
        IN  /\ ~panicked
            /\ children[P] = IF new = << >> THEN None ELSE Some(new)
            /\ \A i \in 1..Len(before) :
                   ~Contains(new, before[i]) => parent[before[i]] = None
            /\ \A i \in 1..Len(new) :
                   /\ parent[new[i]] = Some(P)
                   /\ \A Q \in Entity \ {P} : ~Contains(ListOf(children[Q]), new[i])

\* replace_children(P, <<B, C>>) where children(P) was <<A, B>> and C was the
\* child of another parent.
ReplaceSemanticsWitness ==
    /\ ReplaceCall
    /\ Len(call.children) = 2
    /\ Len(ListOf(pre.children[call.entity])) = 2
    /\ ListOf(pre.children[call.entity])[2] = call.children[1]
    /\ IsSome(pre.parent[call.children[2]])
    /\ pre.parent[call.children[2]] /= Some(call.entity)
    /\ parent[ListOf(pre.children[call.entity])[1]] = None

\* C15: clear_children(P) removes the parent link of every child of P and
\* P's children list, changes nothing else (nothing at all when P has no
\* list), and emits no event.
ClearSemantics ==
    ImmediateCall("clear_children") =>
        LET P == call.entity
            before == ListOf(pre.children[P])
        IN  /\ ~panicked
            /\ children[P] = None
            /\ \A c \in Entity :
                   IF Contains(before, c)
                   THEN parent[c] = None
                   ELSE parent[c] = pre.parent[c]
            /\ \A Q \in Entity \ {P} : children[Q] = pre.children[Q]
            /\ events = pre.events

\* clear_children on a parent of three children.
ClearSemanticsWitness ==
    /\ ImmediateCall("clear_children")
    /\ Len(ListOf(pre.children[call.entity])) = 3
    /\ \A c \in Entity : parent[c] = None

\* C16: remove_parent(C) with parent link P clears the link, removes C from
\* children(P) keeping the order of the others and emits exactly
\* ChildRemoved{C, P}; without a parent link it changes no field and emits
\* nothing.
RemoveParentSemantics ==
    ImmediateCall("remove_parent") =>
        LET C == call.entity
        IN  /\ ~panicked
            /\ IF IsSome(pre.parent[C])
               THEN LET P == Unwrap(pre.parent[C])
                    IN  /\ parent = [pre.parent EXCEPT ![C] = None]
                        /\ ListOf(children[P]) =
                               SelectSeq(ListOf(pre.children[P]), LAMBDA x : x /= C)
                        /\ \A Q \in Entity \ {P} : children[Q] = pre.children[Q]
                        /\ events = Append(pre.events, ChildRemoved(C, P))
               ELSE /\ parent = pre.parent
                    /\ children = pre.children
                    /\ events = pre.events

\* remove_parent on the middle one of three children.
RemoveParentSemanticsWitness ==
    /\ ImmediateCall("remove_parent")
    /\ IsSome(pre.parent[call.entity])
    /\ LET before == ListOf(pre.children[Unwrap(pre.parent[call.entity])])
       IN  /\ Len(before) = 3
           /\ before[2] = call.entity

\* The last call was insert_children(P, idx, cs) with duplicate-free cs and P
\* not in cs.
InsertCall ==
    /\ ImmediateCall("insert_children")
    /\ Distinct(call.children)
    /\ ~Contains(call.children, call.entity)

\* P's list before the last call without the elements of the call's slice.
Remaining ==
    SelectSeq(ListOf(pre.children[call.entity]),
              LAMBDA x : ~Contains(call.children, x))

\* C17: insert_children(P, idx, cs) with idx at most the length of R, P's
\* previous list without the elements of cs, leaves children(P) = the first
\* idx elements of R, then cs in input order, then the rest of R, and gives
\* every element of cs the parent link P.
InsertAtIndex ==
    (InsertCall /\ call.index <= Len(Remaining)) =>
        /\ ~panicked
        /\ ListOf(children[call.entity]) =
               SubSeq(Remaining, 1, call.index) \o call.children
                   \o SubSeq(Remaining, call.index + 1, Len(Remaining))
        /\ \A i \in 1..Len(call.children) :
               parent[call.children[i]] = Some(call.entity)

\* insert_children(P, 1, <<A, D>>) where children(P) was <<A, B>>: A is taken
\* out of the list first and D comes from outside.
InsertAtIndexWitness ==
    /\ InsertCall
    /\ call.index = 1
    /\ Len(call.children) = 2
    /\ Len(ListOf(pre.children[call.entity])) >= 2
    /\ ListOf(pre.children[call.entity])[1] = call.children[1]
    /\ ~Contains(ListOf(pre.children[call.entity]), call.children[2])
    /\ Len(Remaining) >= 1

\* C18 (as claimed): insert_children(P, idx, cs) with idx greater than the
\* length of P's list without the elements of cs panics, and every parent
\* link, every children list and the events are as before the call.
OutOfRangeInsertAborts ==
    (InsertCall /\ IsSome(pre.children[call.entity])
         /\ call.index > Len(Remaining)) =>
        /\ panicked
        /\ parent = pre.parent
        /\ children = pre.children
        /\ events = pre.events

\* The last call was add_child(P, C) or set_parent(C, P) with P alive, P /= C
\* and C's parent link naming an entity that no longer exists.
StaleParentCall ==
    /\ call.via = "world"
    /\ call.op \in {"add_child", "set_parent"}
    /\ NewParent /= MovedChild
    /\ NewParent \in pre.alive
    /\ IsSome(pre.parent[MovedChild])
    /\ Unwrap(pre.parent[MovedChild]) \notin pre.alive

\* C19: add_child(P, C) / set_parent(C, P) with live P, where C's parent link
\* names an entity that no longer exists, completes without a panic, leaves
\* parent(C) = P and C at the tail of children(P), and changes no other
\* entity's parent link or children list.
StaleParentTolerated ==
    StaleParentCall =>
        LET C == MovedChild
            P == NewParent
        IN  /\ ~panicked
            /\ parent = [pre.parent EXCEPT ![C] = Some(P)]
            /\ ListOf(children[P]) =
                   Append(SelectSeq(ListOf(pre.children[P]), LAMBDA x : x /= C), C)
            /\ \A Q \in Entity \ {P} : children[Q] = pre.children[Q]

\* The child of a despawned parent was put under a parent that already had a
\* child of its own.
StaleParentToleratedWitness ==
    /\ StaleParentCall
    /\ ~panicked
    /\ Len(ListOf(pre.children[NewParent])) = 1
    /\ Len(ListOf(children[NewParent])) = 2

\* The children the last batch call had to work on: the slice of
\* add_children / insert_children, the listed children of the slice for
\* remove_children, the list for clear_children.
Involved ==
    CASE call.op \in {"add_children", "insert_children"} -> call.children
      [] call.op = "remove_children" ->
             SelectSeq(call.children,
                       LAMBDA c : Contains(ListOf(pre.children[call.entity]), c))
      [] OTHER -> ListOf(pre.children[call.entity])

\* The last call was a batch operation on P, with P not in the slice and an
\* index in range, and one of the children involved no longer exists.
MissingChildCall ==
    /\ call.via = "world"
    /\ call.op \in {"add_children", "insert_children", "remove_children",
                    "clear_children"}
    /\ ~Contains(call.children, call.entity)
    /\ call.index = 0
    /\ \E i \in 1..Len(Involved) : Involved[i] \notin pre.alive

\* C20 (as claimed): a batch operation with a child that no longer exists
\* does not panic, emits no event for that child and is applied to every
\* child that exists: add_children / insert_children give it the parent link
\* P, remove_children / clear_children take its parent link away.
MissingChildSkipped ==
    MissingChildCall =>
        /\ ~panicked
        /\ \A k \in 1..Len(NewEvents) : NewEvents[k].child \in pre.alive
        /\ \A i \in 1..Len(Involved) :
               Involved[i] \in pre.alive =>
                   parent[Involved[i]] =
                       IF call.op \in {"add_children", "insert_children"}
                       THEN Some(call.entity)
                       ELSE None

\* C21: after every operation made on both stores, the store without the
\* Events<HierarchyEvent> resource has the same parent links and children
\* lists as the store with it, has panicked exactly when that one has, and
\* holds no event.
SinkIndependence ==
    /\ twin.parent = parent
    /\ twin.children = children
    /\ twin.alive = alive
    /\ twin.panicked = panicked
    /\ ~twin.sink
    /\ twin.events = << >>

\* A move has completed on both stores; the store with the resource holds the
\* ChildMoved of it.
SinkIndependenceWitness ==
    /\ ~panicked
    /\ ~twin.panicked
    /\ call /= NoCall
    /\ \E k \in 1..Len(events) : events[k].kind = "ChildMoved"
    /\ \E e \in Entity : IsSome(twin.parent[e])

\* C22: once the queue is applied, the store the call was recorded on has the
\* parent links, children lists and events of the store the same call was
\* made on immediately.
BuildersAgree ==
    queue = << >> =>
        /\ parent = twin.parent
        /\ children = twin.children
        /\ events = twin.events
        /\ panicked = twin.panicked

\* A recorded insert_children was applied and has moved a child.
BuildersAgreeWitness ==
    /\ ~panicked
    /\ call.op = "apply"
    /\ call.children[1].op = "insert_children"
    /\ call.children[1].index = 1
    /\ \E k \in 1..Len(events) : events[k].kind = "ChildMoved"

\* The queue q is what one with_children call records: insert commands, then
\* one add_children command.
WithChildrenShape(q) ==
    /\ Len(q) >= 1
    /\ q[Len(q)].op = "add_children"
    /\ \A i \in 1..(Len(q) - 1) : q[i].op = "insert"

\* C23: a deferred with_children(P) whose closure spawns n entities queues
\* the closure's commands and then exactly one add_children command for the
\* spawned entities in spawn order; once the queue is applied children(P)
\* ends with those entities in spawn order and each has parent link P.
DeferredWithChildren ==
    /\ (call.via = "commands" /\ call.op = "with_children" /\ ~panicked) =>
           LET n == call.index
               cs == [i \in 1..n |-> pre.spawned + i]
           IN  /\ Len(queue) = n + 1
               /\ \A i \in 1..n : queue[i] = commands_spawn(cs[i])
               /\ queue[n + 1] = Call("commands", "add_children", call.entity, 0, cs, 0)
    /\ (call.op = "apply" /\ WithChildrenShape(call.children)) =>
           LET fin == call.children[Len(call.children)]
               P == fin.entity
               cs == fin.children
               list == ListOf(children[P])
           IN  /\ ~panicked
               /\ Len(cs) = Len(call.children) - 1
               /\ Len(list) >= Len(cs)
               /\ SubSeq(list, Len(list) - Len(cs) + 1, Len(list)) = cs
               /\ \A i \in 1..Len(cs) : parent[cs[i]] = Some(P)

\* Two entities spawned through the builder were appended to the one child
\* the parent already had.
DeferredWithChildrenWitness ==
    /\ call.op = "apply"
    /\ Len(call.children) = 3
    /\ WithChildrenShape(call.children)
    /\ Len(ListOf(pre.children[call.children[3].entity])) = 1
    /\ Len(ListOf(children[call.children[3].entity])) = 3

\* add_child(P, c) for each c of cs from index i on, in order.
RECURSIVE add_child_each(_, _, _, _)
add_child_each(w, p, cs, i) ==
    IF i > Len(cs) \/ w.panicked THEN w
    ELSE add_child_each(add_child(w, p, cs[i]), p, cs, i + 1)

\* C24: add_children(P, cs) with duplicate-free cs, P not in cs, leaves the
\* parent links, the children lists and the events that add_child(P, c) for
\* each c of cs in order leaves on the same starting state.
BatchEqualsLoop ==
    AppendCall =>
        LET w == add_child_each(pre, call.entity, call.children, 1)
        IN  /\ parent = w.parent
            /\ children = w.children
            /\ events = w.events
            /\ panicked = w.panicked

\* add_children of two children, the first moved from another parent and the
\* second an orphan.
BatchEqualsLoopWitness ==
    /\ AppendCall
    /\ Len(call.children) = 2
    /\ Len(NewEvents) = 2
    /\ NewEvents[1].kind = "ChildMoved"
    /\ NewEvents[2].kind = "ChildAdded"

\* C25: while recorded calls wait in the queue the store has the parent
\* links, children lists and events it had before they were recorded; once
\* the queue is applied it has those of the store on which the same calls
\* were made immediately, one after the other in the order recorded.
DeferredUntilApplied ==
    /\ queue /= << >> =>
           /\ parent = pre.parent
           /\ children = pre.children
           /\ events = pre.events
    /\ queue = << >> =>
           /\ parent = twin.parent
           /\ children = twin.children
           /\ events = twin.events
           /\ panicked = twin.panicked

\* add_child(P, C) and then remove_parent(C) were recorded and applied: C was
\* added and removed again.
DeferredUntilAppliedWitness ==
    /\ call.op = "apply"
    /\ Len(call.children) = 2
    /\ call.children[1].op = "add_child"
    /\ call.children[2].op = "remove_parent"
    /\ call.children[2].entity = call.children[1].other
    /\ Len(events) = 2
    /\ events[1].kind = "ChildAdded"
    /\ events[2].kind = "ChildRemoved"

\* The deferred builder was called with a self-reference: add_child(x, x),
\* set_parent(x, x), or add_children / insert_children / replace_children on
\* x with x in the slice.
DeferredSelfReference(this) ==
    /\ this.via = "commands"
    /\ \/ this.op \in {"add_child", "set_parent"} /\ this.entity = this.other
       \/ /\ this.op \in {"add_children", "insert_children", "replace_children"}
          /\ Contains(this.children, this.entity)

\* No command in the queue is a call with a self-reference.
NoSelfReferenceQueued ==
    \A i \in 1..Len(queue) : ~DeferredSelfReference(queue[i])

\* The step in which a call with a self-reference panics leaves the queue,
\* the parent links, the children lists and the events as they were.
RejectedWhenRecorded ==
    (~panicked /\ panicked' /\ DeferredSelfReference(call')) =>
        /\ queue' = queue
        /\ parent' = parent
        /\ children' = children
        /\ events' = events

\* C26: a deferred call with a self-reference is rejected when it is
\* recorded: it is never queued, so applying the queue never runs it, and
\* the step that rejects it changes neither the commands queued earlier nor
\* the store.
DeferredSelfReferenceRejected ==
    []NoSelfReferenceQueued /\ [][RejectedWhenRecorded]_vars

\* replace_children(x, <<c, x>>) was rejected while an earlier command was
\* waiting in the queue, which it still is.
DeferredSelfReferenceRejectedWitness ==
    /\ panicked
    /\ call.via = "commands"
    /\ call.op = "replace_children"
    /\ Len(call.children) = 2
    /\ call.children[2] = call.entity
    /\ Len(queue) = 1

\* The new child is at the tail of children(P) with parent link P, and the
\* call has emitted exactly ChildAdded{child, P}.
ChildBuilt(P, child) ==
    /\ ~panicked
    /\ parent[child] = Some(P)
    /\ ListOf(children[P]) = Append(ListOf(pre.children[P]), child)
    /\ NewEvents = <<ChildAdded(child, P)>>

\* C27 (as claimed): immediate with_child on P, and deferred with_child on P
\* once the queue is applied, both leave a new child with parent link P at
\* the tail of children(P) and both emit exactly ChildAdded{child, P}.
WithChildAgrees ==
    /\ ImmediateCall("with_child") => ChildBuilt(call.entity, pre.spawned + 1)
    /\ (call.op = "apply" /\ Len(call.children) = 2
            /\ call.children[1].op = "insert" /\ call.children[2].op = "add_child"
            /\ call.children[2].other = call.children[1].entity) =>
           ChildBuilt(call.children[2].entity, call.children[2].other)

\* The elements of s in order of first occurrence.
FirstOccurrences(s) ==
    SelectSeq([i \in 1..Len(s) |->
                  IF \E j \in 1..(i - 1) : s[j] = s[i] THEN << >> ELSE <<s[i]>>],
              LAMBDA o : o /= << >>)

\* C28: replace_children(P, new) emits no ChildRemoved for a previous child
\* of P; in input order of new, every element that had no parent or had
\* parent P before the call gets ChildAdded{c, P}, and every element that had
\* another parent Q gets ChildMoved{c, Q, P}; nothing else is emitted.
ReplaceNotifications ==
    (ImmediateCall("replace_children") /\ ~Contains(call.children, call.entity)) =>
        LET P == call.entity
            new == FirstOccurrences(call.children)
        IN  /\ ~panicked
            /\ \A i \in 1..Len(NewEvents) : NewEvents[i].kind /= "ChildRemoved"
            /\ NewEvents =
                   [i \in 1..Len(new) |->
                       LET c == new[i][1]
                       IN  IF pre.parent[c] = None \/ pre.parent[c] = Some(P)
                           THEN ChildAdded(c, P)
                           ELSE ChildMoved(c, Unwrap(pre.parent[c]), P)]

\* replace_children(P, <<A, C>>) where A was the only child of P and C was
\* the child of another parent: ChildAdded for A, then ChildMoved for C.
ReplaceNotificationsWitness ==
    /\ ~panicked
    /\ ImmediateCall("replace_children")
    /\ Len(call.children) = 2
    /\ pre.children[call.entity] = Some(<<call.children[1]>>)
    /\ IsSome(pre.parent[call.children[2]])
    /\ pre.parent[call.children[2]] /= Some(call.entity)
    /\ Len(NewEvents) = 2
    /\ NewEvents[1].kind = "ChildAdded"
    /\ NewEvents[2].kind = "ChildMoved"

\* The entities that were in children(P) before the last call and are not in
\* it any more.
LeftChildren(P) ==
    {c \in Entity : /\ Contains(ListOf(pre.children[P]), c)
                    /\ ~Contains(ListOf(children[P]), c)}

\* C29 (as claimed): remove_children(P, cs) emits exactly one
\* ChildRemoved{c, P} for every child c that left children(P), also when cs
\* names c more than once, and no other event: as many ChildRemoved events
\* as entities that left the list.
OneRemovedPerChild ==
    ImmediateCall("remove_children") =>
        LET P == call.entity
        IN  /\ Len(NewEvents) = Cardinality(LeftChildren(P))
            /\ \A i \in 1..Len(NewEvents) :
                   \E c \in LeftChildren(P) : NewEvents[i] = ChildRemoved(c, P)
            /\ \A i, j \in 1..Len(NewEvents) :
                   NewEvents[i] = NewEvents[j] => i = j

\* C30 (as claimed): insert_children(P, idx, cs) with P not in cs and idx
\* greater than the length of P's list before the call (0 when P has no
\* list) fails; it never succeeds by ignoring idx.
OutOfRangeNeverAccepted ==
    (/\ ImmediateCall("insert_children")
     /\ ~Contains(call.children, call.entity)
     /\ call.index > Len(ListOf(pre.children[call.entity]))) => panicked

\* The bidirectional invariant in the world w: C is in the children list of P
\* exactly when the parent link of C is P.
BidirectionalIn(w) ==
    \A P, C \in Entity :
        Contains(ListOf(w.children[P]), C) <=> w.parent[C] = Some(P)

\* The store is as the world w in links, lists, events and failure.
SameOutcome(w) ==
    /\ parent = w.parent
    /\ children = w.children
    /\ events = w.events
    /\ panicked = w.panicked

\* C31: from a state where the bidirectional invariant holds and
\* parent(C) = P, remove_parent(C) and remove_children(P, [C]) leave the same
\* parent links and the same children lists and both emit the single event
\* ChildRemoved{C, P}.
RemoveParentIsRemoveChild ==
    /\ (/\ ImmediateCall("remove_parent")
        /\ BidirectionalIn(pre)
        /\ IsSome(pre.parent[call.entity])) =>
           /\ SameOutcome(remove_children(pre, Unwrap(pre.parent[call.entity]),
                                          <<call.entity>>))
           /\ NewEvents = <<ChildRemoved(call.entity,
                                         Unwrap(pre.parent[call.entity]))>>
    /\ (/\ ImmediateCall("remove_children")
        /\ BidirectionalIn(pre)
        /\ Len(call.children) = 1
        /\ pre.parent[call.children[1]] = Some(call.entity)) =>
           /\ SameOutcome(remove_parent(pre, call.children[1]))
           /\ NewEvents = <<ChildRemoved(call.children[1], call.entity)>>

\* remove_parent(C) where C was the first of the two children of P: C has no
\* parent link, the list of P keeps the other child, and one event was sent.
RemoveParentIsRemoveChildWitness ==
    /\ ~panicked
    /\ ImmediateCall("remove_parent")
    /\ BidirectionalIn(pre)
    /\ IsSome(pre.parent[call.entity])
    /\ LET P == Unwrap(pre.parent[call.entity])
       IN  /\ Len(ListOf(pre.children[P])) = 2
           /\ ListOf(pre.children[P])[1] = call.entity
           /\ children[P] = Some(<<ListOf(pre.children[P])[2]>>)
    /\ parent[call.entity] = None
    /\ Len(NewEvents) = 1

\* Following parent links from `from`, for at most n more links, arrives at e.
RECURSIVE ReachedBy(_, _, _)
ReachedBy(e, from, n) ==
    /\ n > 0
    /\ IsSome(parent[from])
    /\ \/ Unwrap(parent[from]) = e
       \/ ReachedBy(e, Unwrap(parent[from]), n - 1)

\* C32 (as claimed): in every reachable state, following one or more parent
\* links from an entity never returns to that entity: no entity is its own
\* ancestor.
Forest ==
    \A e \in Entity : ~ReachedBy(e, e, Cardinality(Entity))

====
